---- MODULE Spec2Model ----
(***************************************************************************)
(* Book-Alchemy: the request handlers of app.py (home, add_author,         *)
(* add_book, delete_book) over the Author and Book tables of               *)
(* data_models.py, stored in SQLite through Flask-SQLAlchemy.              *)
(*                                                                         *)
(* Text is modelled as a sequence of one-character strings, so that the    *)
(* parsing, matching and ordering the handlers rely on are computed.       *)
(* Python's None and SQL's NULL are the one-element sequences NoneV and    *)
(* NullV, whose element is no character.                                   *)
(***************************************************************************)
EXTENDS Integers, Sequences, FiniteSets, TLC

VARIABLES authors, books, req, resp, txn, result, inflight

vars == <<authors, books, req, resp, txn, result, inflight>>

-----------------------------------------------------------------------------
(* Bounds of the model *)

\* the largest Book id the model lets an insert allocate (ids of deleted
\* last rows are allocated again, so this also bounds the rows held)
MaxBooks == 2

\* the largest number of Author rows the model lets the table hold
MaxAuthors == 1

-----------------------------------------------------------------------------
(* Text *)

NoneV == <<"None">>

NullV == <<"NULL">>

Digits == {"0", "1", "2", "3", "4", "5", "6", "7", "8", "9"}

DigitVal(c) ==
    CASE c = "0" -> 0 [] c = "1" -> 1 [] c = "2" -> 2 [] c = "3" -> 3
      [] c = "4" -> 4 [] c = "5" -> 5 [] c = "6" -> 6 [] c = "7" -> 7
      [] c = "8" -> 8 [] c = "9" -> 9

DigitChar(n) ==
    CASE n = 0 -> "0" [] n = 1 -> "1" [] n = 2 -> "2" [] n = 3 -> "3"
      [] n = 4 -> "4" [] n = 5 -> "5" [] n = 6 -> "6" [] n = 7 -> "7"
      [] n = 8 -> "8" [] n = 9 -> "9"

\* the code point of a character (the characters the inputs are drawn from)
Ord(c) ==
    CASE c = " " -> 32 [] c = "%" -> 37 [] c = "-" -> 45
      [] c \in Digits -> 48 + DigitVal(c)
      [] c = "A" -> 65 [] c = "B" -> 66 [] c = "Z" -> 90 [] c = "_" -> 95
      [] c = "a" -> 97 [] c = "b" -> 98 [] c = "c" -> 99 [] c = "x" -> 120

\* ASCII case folding, as SQLite's LIKE applies it
Lower(c) ==
    CASE c = "A" -> "a" [] c = "B" -> "b" [] c = "Z" -> "z" [] OTHER -> c

AllDigits(s) == \A i \in 1..Len(s) : s[i] \in Digits

RECURSIVE DecValue(_)
\* the value of a sequence of decimal digits (0 for the empty sequence)
DecValue(s) ==
    IF s = <<>> THEN 0
    ELSE 10 * DecValue(SubSeq(s, 1, Len(s) - 1)) + DigitVal(s[Len(s)])

RECURSIVE DecText(_)
\* the decimal text of a natural number, as SQLite writes it
DecText(n) ==
    IF n < 10 THEN <<DigitChar(n)>>
    ELSE DecText(n \div 10) \o <<DigitChar(n % 10)>>

\* str.strip(): the text without its leading and trailing blanks
Strip(s) ==
    LET keep == {i \in 1..Len(s) : s[i] # " "}
    IN  IF keep = {} THEN <<>>
        ELSE LET lo == CHOOSE i \in keep : \A j \in keep : i <= j
                 hi == CHOOSE i \in keep : \A j \in keep : j <= i
             IN  SubSeq(s, lo, hi)

\* str.split("-"): the parts of s between its dashes
RECURSIVE Split(_)
Split(s) ==
    IF \A i \in 1..Len(s) : s[i] # "-" THEN <<s>>
    ELSE LET k == CHOOSE i \in 1..Len(s) :
                      s[i] = "-" /\ \A j \in 1..(i - 1) : s[j] # "-"
         IN  <<SubSeq(s, 1, k - 1)>> \o Split(SubSeq(s, k + 1, Len(s)))

\* int(s) of Python for a text of digits, signs, blanks and letters:
\* blanks around are dropped, one sign may lead, digits must follow
PyInt(s) ==
    LET t    == Strip(s)
        sgn  == t # <<>> /\ t[1] \in {"-", "+"}
        body == IF sgn THEN Tail(t) ELSE t
        ok   == body # <<>> /\ AllDigits(body)
    IN  [ok |-> ok,
         val |-> IF ~ok THEN 0
                 ELSE IF sgn /\ t[1] = "-" THEN 0 - DecValue(body)
                 ELSE DecValue(body)]

RECURSIVE SeqLess(_, _)
\* s sorts strictly before t, byte by byte (SQLite's BINARY collation)
SeqLess(s, t) ==
    IF t = <<>> THEN FALSE
    ELSE IF s = <<>> THEN TRUE
    ELSE IF Ord(Head(s)) # Ord(Head(t)) THEN Ord(Head(s)) < Ord(Head(t))
    ELSE SeqLess(Tail(s), Tail(t))

\* ORDER BY on a text column: NULL first, then byte order
KeyLeq(s, t) ==
    IF s = NullV THEN TRUE
    ELSE IF t = NullV THEN FALSE
    ELSE s = t \/ SeqLess(s, t)

RECURSIVE LikeMatch(_, _)
\* s LIKE p in SQLite: % is any run of characters, _ is any one character,
\* any other character matches itself without regard to ASCII case
LikeMatch(p, s) ==
    IF p = <<>> THEN s = <<>>
    ELSE IF Head(p) = "%"
         THEN LikeMatch(Tail(p), s) \/ (s # <<>> /\ LikeMatch(p, Tail(s)))
    ELSE IF s = <<>> THEN FALSE
    ELSE IF Head(p) = "_" THEN LikeMatch(Tail(p), Tail(s))
    ELSE Lower(Head(p)) = Lower(Head(s)) /\ LikeMatch(Tail(p), Tail(s))

-----------------------------------------------------------------------------
(* Dates: datetime.strptime(s, "%Y-%m-%d").date() and its stored text *)

IsLeap(y) == (y % 4 = 0 /\ y % 100 # 0) \/ y % 400 = 0

DaysIn(y, m) ==
    IF m = 2 THEN (IF IsLeap(y) THEN 29 ELSE 28)
    ELSE IF m \in {4, 6, 9, 11} THEN 30 ELSE 31

\* %d also accepts a blank followed by one digit 1-9
DayDigits(p) ==
    IF Len(p) = 2 /\ p[1] = " " /\ p[2] \in Digits THEN <<p[2]>> ELSE p

\* strptime with "%Y-%m-%d": four digits, a month 1-12 and a day 1-31 of one
\* or two digits, nothing else; then date(y, m, d), which needs y >= 1 and
\* a day the month has.  ok = FALSE is the ValueError either one raises.
ParseDate(s) ==
    LET parts == Split(s)
        shape == /\ Len(parts) = 3
                 /\ Len(parts[1]) = 4 /\ AllDigits(parts[1])
                 /\ Len(parts[2]) \in {1, 2} /\ AllDigits(parts[2])
                 /\ Len(DayDigits(parts[3])) \in {1, 2}
                 /\ AllDigits(DayDigits(parts[3]))
        y == DecValue(parts[1])
        m == DecValue(parts[2])
        d == DecValue(DayDigits(parts[3]))
        ok == shape /\ m \in 1..12 /\ d \in 1..31 /\ y >= 1 /\ d <= DaysIn(y, m)
    IN  IF ok THEN [ok |-> TRUE, y |-> y, m |-> m, d |-> d]
        ELSE [ok |-> FALSE, y |-> 0, m |-> 0, d |-> 0]

\* n written with at least w digits, zero padded
RECURSIVE Pad(_, _)
Pad(t, w) == IF Len(t) >= w THEN t ELSE Pad(<<"0">> \o t, w)

\* date.isoformat(), the text sqlite3 binds for a date: YYYY-MM-DD
IsoFormat(dt) ==
    Pad(DecText(dt.y), 4) \o <<"-">> \o Pad(DecText(dt.m), 2)
        \o <<"-">> \o Pad(DecText(dt.d), 2)

-----------------------------------------------------------------------------
(* Column affinities of the Book table *)

\* Book.isbn is an Integer column: SQLite stores a text that is a well-formed
\* integer (blanks around it allowed) as that integer and any other text as
\* text, and compares a bound text with the column the same way.
IsbnAffinity(s) ==
    LET n == PyInt(s)
    IN  IF n.ok
        THEN [kind |-> "integer", int |-> n.val, text |-> <<>>]
        ELSE [kind |-> "text", int |-> 0, text |-> s]

\* Book.publication_year is a String column: an integer bound to it is stored
\* as its decimal text, None as NULL.
YearAffinity(y) ==
    IF ~y.set THEN NullV
    ELSE IF y.val < 0 THEN <<"-">> \o DecText(0 - y.val)
    ELSE DecText(y.val)

-----------------------------------------------------------------------------
(* Requests: the form fields, query arguments and path values a client sends *)

\* 1 May 1990, spelled with and without leading zeros
Birth1990 == <<"1", "9", "9", "0", "-", "0", "5", "-", "0", "1">>

Birth1990Short == <<"1", "9", "9", "0", "-", "5", "-", "1">>

\* 30 February: the pattern matches and the date does not exist
BirthFeb30 == <<"1", "9", "9", "0", "-", "0", "2", "-", "3", "0">>

Death1995 == <<"1", "9", "9", "5", "-", "1", "2", "-", "3", "1">>

YearFullDate == <<"1", "9", "9", "9", "-", "0", "7", "-", "0", "1">>

SortTitle == <<"t", "i", "t", "l", "e">>

SortAuthor == <<"a", "u", "t", "h", "o", "r">>

SortYear ==
    <<"p", "u", "b", "l", "i", "c", "a", "t", "i", "o", "n", "_",
      "y", "e", "a", "r">>

NoSort == <<"n", "o", "_", "s", "o", "r", "t">>

\* The requests of Spec: every handler, with forms whose fields are all
\* present and whose author_id is an integer
NameInputs == {<<"A">>}

BirthInputs == {Birth1990Short, BirthFeb30}

DeathInputs == {<<>>}

TitleInputs == {<<"a", "b">>, <<"B">>}

AuthorIdInputs == {<<"1">>}

YearInputs == {<<>>, YearFullDate, <<"a", "b", "c">>}

IsbnInputs == {<<"1">>, <<"0", "1">>, <<"a">>}

SortInputs == {NoneV, SortTitle, SortAuthor, SortYear, <<"x">>}

SearchInputs == {NoneV, <<>>, <<"b">>, <<"_">>}

BookIdInputs == 0..(MaxBooks + 1)

\* The requests of SpecForms: the forms of add_author and add_book with
\* absent, empty, malformed and well-formed fields
FormNames == {<<"A">>}

FormBirths == {NoneV, <<>>, Birth1990, Birth1990Short, BirthFeb30}

FormDeaths == {NoneV, <<>>, <<"a", "b", "c">>, Death1995}

FormTitles == {<<" ", "B">>}

FormAuthorIds == {NoneV, <<"1">>, <<"x">>}

FormYears ==
    {<<>>, YearFullDate, <<"2", "0", "0", "1">>, <<"a", "b", "c">>,
     <<"-", "5">>}

FormIsbns == {<<"1">>, <<"0", "1">>}

\* The requests of SpecConc: add_book forms that differ in the isbn only
ConcTitles == {<<"B">>}

ConcAuthorIds == {<<"1">>}

ConcYears == {<<>>, <<"a", "b", "c">>}

ConcIsbns == {<<"1">>, <<"0", "1">>, <<"a">>}

\* a request with every field absent
NoReq ==
    [op |-> "none", method |-> "GET",
     name |-> NoneV, birth_date |-> NoneV, death_date |-> NoneV,
     title |-> NoneV, author_id |-> NoneV, publication_year |-> NoneV,
     isbn |-> NoneV, book_id |-> 0, sort_by |-> NoneV, search |-> NoneV]

\* a response: a rendered template, a redirect or an exception that escapes
Render(view, flag) == [kind |-> "render", view |-> view, flag |-> flag]

Redirect(view, flag) == [kind |-> "redirect", view |-> view, flag |-> flag]

Fault(exc) == [kind |-> "fault", view |-> "", flag |-> exc]

-----------------------------------------------------------------------------
(* Storage *)

\* INTEGER PRIMARY KEY without AUTOINCREMENT: one more than the largest id
NextId(rows) ==
    IF rows = {} THEN 1
    ELSE 1 + (CHOOSE i \in {r.id : r \in rows} : \A r \in rows : r.id <= i)

\* Book.query.filter_by(isbn=isbn).first()
BooksWithIsbn(isbn) == {b \in books : b.isbn = IsbnAffinity(isbn)}

\* add_book without the lookup of line 127
NoDuplicateCheck(isbn) == FALSE

\* the lookup comparing the text as typed with the rows stored as text
DuplicateAsText(isbn) ==
    \E b \in books : b.isbn.kind = "text" /\ b.isbn.text = isbn

\* whether add_book takes an existing row for a duplicate
IsDuplicate(isbn) == BooksWithIsbn(isbn) # {}

\* the INSERT against a UNIQUE isbn column, which adds no second row
InsertBookUnique(rows, row) ==
    IF \E b \in rows : b.isbn = row.isbn THEN rows ELSE rows \cup {row}

\* the rows an INSERT of row leaves in the Book table: the isbn column
\* carries no UNIQUE constraint and foreign keys are not enforced
InsertBook(rows, row) == rows \cup {row}

\* a worker serving no request; while it serves an add_book request between
\* the ISBN lookup and the commit it holds the handler's local variables
Idle == [pc |-> "idle", title |-> <<>>, author_id |-> 0,
         publication_year |-> [ok |-> TRUE, set |-> FALSE, val |-> 0],
         isbn |-> <<>>]

Procs == {1, 2}

\* The tables are empty and no request has been served.  Every request
\* works on a session of its own (db.session is scoped to the request); txn
\* is the state the handler leaves that session's transaction in: "none"
\* never begun, "open" begun by a query and left open, "committed",
\* "rolled_back", or "failed" when commit raised and nothing rolled back.
Init ==
    /\ authors = {}
    /\ books = {}
    /\ req = NoReq
    /\ resp = Render("", "none")
    /\ txn = "none"
    /\ result = <<>>
    /\ inflight = [p \in Procs |-> Idle]

-----------------------------------------------------------------------------
(* home: the catalog listing *)

\* `if search:` - a search text that is present and not empty
Searching(search) == search # NoneV /\ search # <<>>

\* Book.title.like(f'%{search}%')
TitleLike(search, title) == LikeMatch(<<"%">> \o search \o <<"%">>, title)

\* Book.query.join(Author): the books whose author_id is the id of an author
JoinAuthor(rows) == {b \in rows : \E a \in authors : a.id = b.author_id}

AuthorName(b) == (CHOOSE a \in authors : a.id = b.author_id).name

\* the rows the query of home selects
HomeBooks(sort_by, search) ==
    IF Searching(search) THEN {b \in books : TitleLike(search, b.title)}
    ELSE IF sort_by = SortAuthor THEN JoinAuthor(books)
    ELSE books

\* the ORDER BY key of a selected row; NullV where the query has no ORDER BY
HomeKey(sort_by, search, b) ==
    IF Searching(search) THEN b.title
    ELSE IF sort_by = SortTitle THEN b.title
    ELSE IF sort_by = SortAuthor THEN AuthorName(b)
    ELSE IF sort_by = SortYear THEN b.publication_year
    ELSE NullV

\* the lists .all() may return: each selected row once, keys ascending, rows
\* of equal key (and all rows, without ORDER BY) in any order
HomeListings(sort_by, search) ==
    LET sel == HomeBooks(sort_by, search)
        n   == Cardinality(sel)
    IN  {l \in [1..n -> sel] :
           /\ \A i, j \in 1..n : i # j => l[i] # l[j]
           /\ \A i, j \in 1..n : i < j =>
                KeyLeq(HomeKey(sort_by, search, l[i]),
                       HomeKey(sort_by, search, l[j]))}

Home(sorts, searches) ==
    \E sort_arg \in sorts, search \in searches :
      LET sort_by == IF sort_arg = NoneV THEN NoSort ELSE sort_arg
      IN  \E l \in HomeListings(sort_by, search) :
            /\ req' = [NoReq EXCEPT !.op = "home", !.sort_by = sort_arg,
                                    !.search = search]
            /\ result' = l
            /\ resp' = Render("home.html",
                              IF Searching(search) /\ l = <<>>
                              THEN "no_success" ELSE "success")
            /\ txn' = "open"
            /\ UNCHANGED <<authors, books, inflight>>

-----------------------------------------------------------------------------
(* add_author *)

AuthorRow(id, name, birth, death) ==
    [id |-> id, name |-> name, birth_date |-> IsoFormat(birth),
     death_date |-> IF death.ok THEN IsoFormat(death) ELSE NullV]

\* what a POST to /add_author does with the form, up to the commit:
\* the exception that escapes, or "commit" when the Author is built
AddAuthorParse(name, birth, death) ==
    IF name = NoneV \/ birth = NoneV \/ death = NoneV THEN "AttributeError"
    ELSE IF ~ParseDate(Strip(birth)).ok THEN "ValueError"
    ELSE IF Strip(death) # <<>> /\ ~ParseDate(Strip(death)).ok
         THEN "ValueError"
    ELSE "commit"

\* lines 81-90: add and commit; a commit that raises SQLAlchemyError is
\* rolled back and the form rendered with the error
AddAuthorCommit(row) ==
    \/ /\ NextId(authors) <= MaxAuthors
       /\ authors' = authors \cup {row}
       /\ resp' = Redirect("add_author", "success")
       /\ txn' = "committed"
    \/ /\ resp' = Render("add_author.html", "error_database")
       /\ txn' = "rolled_back"
       /\ UNCHANGED authors

AddAuthorGet ==
    /\ req' = [NoReq EXCEPT !.op = "add_author"]
    /\ resp' = Render("add_author.html", "none")
    /\ txn' = "none"
    /\ result' = <<>>
    /\ UNCHANGED <<authors, books, inflight>>

AddAuthorPost(names, births, deaths) ==
    \E name \in names, birth \in births, death \in deaths :
      LET outcome == AddAuthorParse(name, birth, death)
      IN  /\ req' = [NoReq EXCEPT !.op = "add_author", !.method = "POST",
                                  !.name = name, !.birth_date = birth,
                                  !.death_date = death]
          /\ IF outcome # "commit"
             THEN /\ resp' = Fault(outcome)
                  /\ txn' = "none"
                  /\ UNCHANGED authors
             ELSE AddAuthorCommit(
                    AuthorRow(NextId(authors), Strip(name),
                              ParseDate(Strip(birth)),
                              ParseDate(Strip(death))))
          /\ result' = <<>>
          /\ UNCHANGED <<books, inflight>>

-----------------------------------------------------------------------------
(* add_book *)

\* the year parsed from the whole text, without the split at the dash
ParseYearWhole(s) ==
    IF s = <<>> THEN [ok |-> TRUE, set |-> FALSE, val |-> 0]
    ELSE [ok |-> PyInt(s).ok, set |-> PyInt(s).ok, val |-> PyInt(s).val]

\* lines 111-119 on the stripped text: None for an empty text, else the
\* integer before the first dash (or of the whole text when it has no dash);
\* ok = FALSE is the ValueError the handler catches
ParseYear(s) ==
    IF s = <<>> THEN [ok |-> TRUE, set |-> FALSE, val |-> 0]
    ELSE LET n == IF \E i \in 1..Len(s) : s[i] = "-"
                  THEN PyInt(Split(s)[1]) ELSE PyInt(s)
         IN  [ok |-> n.ok, set |-> n.ok, val |-> n.val]

BookRow(id, title, author_id, year, isbn) ==
    [id |-> id, author_id |-> author_id, title |-> title,
     publication_year |-> YearAffinity(year), isbn |-> IsbnAffinity(isbn)]

\* what a POST to /add_book does with the form before it queries the Book
\* table: the exception that escapes, the error it renders, or "lookup"
AddBookParse(title, author_id, year, isbn) ==
    IF title = NoneV \/ author_id = NoneV THEN "AttributeError"
    ELSE IF ~PyInt(Strip(author_id)).ok THEN "ValueError"
    ELSE IF year = NoneV \/ isbn = NoneV THEN "AttributeError"
    ELSE IF ~ParseYear(Strip(year)).ok THEN "error_invalid_year"
    ELSE "lookup"

\* the response and session state of a POST that ends before the insert
AddBookReject(outcome) ==
    /\ resp' = IF outcome \in {"AttributeError", "ValueError"}
               THEN Fault(outcome) ELSE Render("add_book.html", outcome)
    /\ txn' = IF outcome \in {"AttributeError", "ValueError"}
              THEN "none" ELSE "open"

\* lines 135-143: db.session.add(book); db.session.commit(), with no handler
\* around them for the SQLAlchemyError a failing commit raises
AddBookCommit(row) ==
    \/ /\ NextId(books) <= MaxBooks
       /\ books' = InsertBook(books, row)
       /\ resp' = Redirect("add_book", "success")
       /\ txn' = "committed"
    \/ /\ resp' = Fault("SQLAlchemyError")
       /\ txn' = "failed"
       /\ UNCHANGED books

AddBookGet ==
    /\ req' = [NoReq EXCEPT !.op = "add_book"]
    /\ resp' = Render("add_book.html", "none")
    /\ txn' = "open"
    /\ result' = <<>>
    /\ UNCHANGED <<authors, books, inflight>>

AddBookPost(titles, author_ids, years, isbns) ==
    \E title \in titles, author_id \in author_ids,
       year \in years, isbn \in isbns :
      LET outcome == AddBookParse(title, author_id, year, isbn)
      IN  /\ req' = [NoReq EXCEPT !.op = "add_book", !.method = "POST",
                                  !.title = title, !.author_id = author_id,
                                  !.publication_year = year, !.isbn = isbn]
          /\ IF outcome # "lookup"
             THEN AddBookReject(outcome) /\ UNCHANGED books
             ELSE IF IsDuplicate(Strip(isbn))
             THEN AddBookReject("error_duplicate_isbn") /\ UNCHANGED books
             ELSE AddBookCommit(
                    BookRow(NextId(books), Strip(title),
                            PyInt(Strip(author_id)).val,
                            ParseYear(Strip(year)), Strip(isbn)))
          /\ result' = <<>>
          /\ UNCHANGED <<authors, inflight>>

-----------------------------------------------------------------------------
(* delete_book *)

\* the lookup taking the path value for a position counted from 0
BookByIndex(book_id) == {b \in books : b.id = book_id + 1}

\* Book.query.get(book_id)
BookById(book_id) == {b \in books : b.id = book_id}

DeleteBook(ids) ==
    \E book_id \in ids :
      /\ req' = [NoReq EXCEPT !.op = "delete_book", !.method = "POST",
                              !.book_id = book_id]
      /\ IF BookById(book_id) = {}
         THEN /\ resp' = Redirect("home", "error_not_found")
              /\ txn' = "open"
              /\ UNCHANGED books
         ELSE \/ /\ books' = books \ BookById(book_id)
                 /\ resp' = Redirect("home", "success_delete")
                 /\ txn' = "committed"
              \/ /\ resp' = Redirect("home", "error_deleting")
                 /\ txn' = "rolled_back"
                 /\ UNCHANGED books
      /\ result' = <<>>
      /\ UNCHANGED <<authors, inflight>>

-----------------------------------------------------------------------------
(* One request at a time *)

Next ==
    \/ Home(SortInputs, SearchInputs)
    \/ AddAuthorGet
    \/ AddAuthorPost(NameInputs, BirthInputs, DeathInputs)
    \/ AddBookGet
    \/ AddBookPost(TitleInputs, AuthorIdInputs, YearInputs, IsbnInputs)
    \/ DeleteBook(BookIdInputs)

Spec == Init /\ [][Next]_vars

NextForms ==
    \/ AddAuthorGet
    \/ AddAuthorPost(FormNames, FormBirths, FormDeaths)
    \/ AddBookGet
    \/ AddBookPost(FormTitles, FormAuthorIds, FormYears, FormIsbns)
    \/ DeleteBook(BookIdInputs)

SpecForms == Init /\ [][NextForms]_vars

-----------------------------------------------------------------------------
(* Two workers: add_book requests served at the same time.  The ISBN lookup *)
(* (line 127) and the commit (line 142) are separate statements, each       *)
(* atomic in the database, and another worker may run between them.         *)

\* lines 104-133 in worker p: parse the form and look the isbn up
AddBookLookup(p, titles, author_ids, years, isbns) ==
    \E title \in titles, author_id \in author_ids,
       year \in years, isbn \in isbns :
      LET outcome == AddBookParse(title, author_id, year, isbn)
      IN  /\ inflight[p].pc = "idle"
          /\ req' = [NoReq EXCEPT !.op = "add_book", !.method = "POST",
                                  !.title = title, !.author_id = author_id,
                                  !.publication_year = year, !.isbn = isbn]
          /\ IF outcome # "lookup"
             THEN AddBookReject(outcome) /\ UNCHANGED inflight
             ELSE IF IsDuplicate(Strip(isbn))
             THEN AddBookReject("error_duplicate_isbn") /\ UNCHANGED inflight
             ELSE /\ inflight' =
                       [inflight EXCEPT ![p] =
                          [pc |-> "checked", title |-> Strip(title),
                           author_id |-> PyInt(Strip(author_id)).val,
                           publication_year |-> ParseYear(Strip(year)),
                           isbn |-> Strip(isbn)]]
                  /\ UNCHANGED <<resp, txn>>
          /\ result' = <<>>
          /\ UNCHANGED <<authors, books>>

\* lines 135-143 in worker p
AddBookInsert(p) ==
    /\ inflight[p].pc = "checked"
    /\ AddBookCommit(BookRow(NextId(books), inflight[p].title,
                             inflight[p].author_id,
                             inflight[p].publication_year, inflight[p].isbn))
    /\ inflight' = [inflight EXCEPT ![p] = Idle]
    /\ UNCHANGED <<authors, req, result>>

NextConc ==
    \/ \E p \in Procs :
         AddBookLookup(p, ConcTitles, ConcAuthorIds, ConcYears, ConcIsbns)
    \/ \E p \in Procs : AddBookInsert(p)
    \/ DeleteBook(BookIdInputs)

SpecConc == Init /\ [][NextConc]_vars

-----------------------------------------------------------------------------
(* Properties *)

PostOf(r, op) == r.op = op /\ r.method = "POST"

\* C1: whatever requests add_author, add_book and delete_book have served,
\* one at a time, no two Book rows share an isbn.
C1_IsbnUnique ==
    \A b1, b2 \in books : b1.isbn = b2.isbn => b1 = b2

\* two books are stored and a third form, with the isbn of one of them,
\* has just been turned down
C1_Witness ==
    /\ Cardinality(books) = 2
    /\ PostOf(req, "add_book")
    /\ resp = Render("add_book.html", "error_duplicate_isbn")

\* the isbn of the form is the isbn of a stored Book (as the Integer column
\* holds and compares it)
IsbnStored(r) == \E b \in books : b.isbn = IsbnAffinity(Strip(r.isbn))

\* C2, as claimed: an add_book request whose isbn is that of a stored Book
\* is answered with the duplicate error and changes neither table.
C2_DuplicateAlwaysReported ==
    [][(PostOf(req', "add_book") /\ IsbnStored(req'))
         => /\ resp' = Render("add_book.html", "error_duplicate_isbn")
            /\ books' = books /\ authors' = authors]_vars

\* C2, amended: such a request changes neither table; its answer is the
\* duplicate error once author_id and publication_year have parsed, the
\* year error when only the year does not parse, and the escaping exception
\* of author_id when that is absent or no integer.
C2_DuplicateRejected ==
    [][(PostOf(req', "add_book") /\ IsbnStored(req'))
         => /\ books' = books /\ authors' = authors
            /\ resp' =
                 IF req'.author_id = NoneV THEN Fault("AttributeError")
                 ELSE IF ~PyInt(Strip(req'.author_id)).ok
                      THEN Fault("ValueError")
                 ELSE IF ~ParseYear(Strip(req'.publication_year)).ok
                      THEN Render("add_book.html", "error_invalid_year")
                 ELSE Render("add_book.html", "error_duplicate_isbn")]_vars

\* a form spelling a stored isbn differently ("01" for the stored 1) has
\* been answered with the duplicate error
C2_Witness ==
    /\ PostOf(req, "add_book")
    /\ req.isbn = <<"0", "1">>
    /\ resp = Render("add_book.html", "error_duplicate_isbn")
    /\ \E b \in books : b.isbn = [kind |-> "integer", int |-> 1, text |-> <<>>]

\* C3: delete_book for an id no stored Book has answers with the
\* not-found redirect and changes neither table.
C3_DeleteMissingIsNoOp ==
    [][(PostOf(req', "delete_book") /\ \A b \in books : b.id # req'.book_id)
         => /\ resp' = Redirect("home", "error_not_found")
            /\ books' = books /\ authors' = authors]_vars

\* a delete of an id that is not stored has been answered while books are
\* stored
C3_Witness ==
    /\ PostOf(req, "delete_book")
    /\ resp = Redirect("home", "error_not_found")
    /\ books # {}
    /\ \A b \in books : b.id # req.book_id

\* the form of add_author has no usable birth_date, or a death_date that
\* is supplied and is no date
BadAuthorForm(r) ==
    /\ PostOf(r, "add_author")
    /\ \/ r.birth_date = NoneV
       \/ ~ParseDate(Strip(r.birth_date)).ok
       \/ /\ r.death_date # NoneV
          /\ Strip(r.death_date) # <<>>
          /\ ~ParseDate(Strip(r.death_date)).ok

\* the form of add_book has an author_id or a publication_year that is no
\* integer
BadBookForm(r) ==
    /\ PostOf(r, "add_book")
    /\ \/ ~PyInt(Strip(r.author_id)).ok
       \/ /\ r.publication_year # NoneV
          /\ ~ParseYear(Strip(r.publication_year)).ok

\* C4: a form that fails validation is answered with the form rendered
\* again and an error message; no exception escapes and no row is inserted.
C4_ValidationRecovered ==
    [][(BadAuthorForm(req') \/ BadBookForm(req'))
         => /\ resp'.kind = "render"
            /\ resp'.flag \notin {"none", "success"}
            /\ books' = books /\ authors' = authors]_vars

\* the text before the first dash of s, or s when it has no dash
BeforeDash(s) ==
    IF \E i \in 1..Len(s) : s[i] = "-"
    THEN SubSeq(s, 1, (CHOOSE i \in 1..Len(s) :
                         s[i] = "-" /\ \A j \in 1..(i - 1) : s[j] # "-") - 1)
    ELSE s

\* the request is an add_book form that reaches the parse of a non-empty
\* publication_year
ParsesYear(r) ==
    /\ PostOf(r, "add_book")
    /\ r.title # NoneV /\ r.author_id # NoneV
    /\ PyInt(Strip(r.author_id)).ok
    /\ r.publication_year # NoneV /\ r.isbn # NoneV
    /\ Strip(r.publication_year) # <<>>

\* C5: add_book reads a non-empty publication_year as the integer before
\* its first dash, or of the whole text when it has none; the Book it
\* inserts holds that integer ("1999-07-01" is stored as 1999); when that
\* text is no integer the answer is the year error and no row is inserted.
C5_YearParsed ==
    [][ParsesYear(req') =>
         LET n == PyInt(BeforeDash(Strip(req'.publication_year)))
         IN  IF n.ok
             THEN /\ resp' # Render("add_book.html", "error_invalid_year")
                  /\ \A b \in books' \ books :
                       /\ b.publication_year = DecText(n.val)
                       /\ req'.publication_year = YearFullDate
                            => b.publication_year = <<"1", "9", "9", "9">>
             ELSE /\ resp' = Render("add_book.html", "error_invalid_year")
                  /\ books' = books]_vars

\* the form with publication_year "1999-07-01" has been accepted and its
\* Book is stored with the year 1999
C5_Witness ==
    /\ PostOf(req, "add_book")
    /\ req.publication_year = YearFullDate
    /\ resp = Redirect("add_book", "success")
    /\ \E b \in books :
         /\ b.isbn = IsbnAffinity(Strip(req.isbn))
         /\ b.publication_year = <<"1", "9", "9", "9">>

\* title contains search as a substring, letters compared without regard
\* to ASCII case (the reading most favourable to the LIKE operator)
Contains(title, search) ==
    \E i \in 0..(Len(title) - Len(search)) :
      \A j \in 1..Len(search) : Lower(title[i + j]) = Lower(search[j])

\* C6: a listing with a non-empty search text returns exactly the Books
\* whose title contains the text, each once, by title ascending, whatever
\* sort_by is.
C6_SearchIsSubstring ==
    (req.op = "home" /\ Searching(req.search)) =>
      /\ {result[i] : i \in 1..Len(result)}
           = {b \in books : Contains(b.title, req.search)}
      /\ \A i, j \in 1..Len(result) :
           i < j => /\ result[i] # result[j]
                    /\ KeyLeq(result[i].title, result[j].title)

\* C7: no add_author, add_book or delete_book request ends with a failed
\* transaction that was not rolled back.
C7_TransactionClosed ==
    req.op \in {"add_author", "add_book", "delete_book"} => txn # "failed"

\* C8: the author_id of every Book is the id of a stored Author.
C8_AuthorExists ==
    \A b \in books : \E a \in authors : a.id = b.author_id

\* C10: a listing without search text returns every stored Book exactly
\* once, whatever sort_by is.
C10_ListingComplete ==
    (req.op = "home" /\ ~Searching(req.search)) =>
      \A b \in books :
        Cardinality({i \in 1..Len(result) : result[i] = b}) = 1

\* C9: a worker that passed the ISBN lookup inserts its Book when its
\* commit succeeds, whatever has been committed since the lookup: the
\* isbn column turns no insert down, so two workers that both looked up
\* before either committed both insert.
C9_InsertAfterLookup ==
    [][\A p \in Procs :
         (inflight[p].pc = "checked" /\ inflight'[p].pc = "idle"
            /\ resp'.kind = "redirect")
           => /\ Cardinality(books') = Cardinality(books) + 1
              /\ \E b \in books' \ books :
                   b.isbn = IsbnAffinity(inflight[p].isbn)]_vars

\* two Book rows share one isbn
C9_Witness ==
    \E b1, b2 \in books : b1 # b2 /\ b1.isbn = b2.isbn

====
